---- MODULE Spec2Model ----
(***************************************************************************)
(* Model of disk_cleaner.py: the path classifier (is_path_protected,       *)
(* is_safe_to_delete, is_protected), the recursive scanner                  *)
(* (scan_directory / scan_with_progress), the reconciliation and ranking    *)
(* steps of analyze, the interactive deletion loop of analyze and           *)
(* delete_item / run_as_admin.                                              *)
(*                                                                         *)
(* A path is the sequence of its segments below the filesystem root: the   *)
(* scanner makes every path absolute (get_long_path_name -> abspath), so   *)
(* every segment is preceded by a separator.  The classifier is also given *)
(* relative paths: canchored tells whether the path starts at a root.      *)
(***************************************************************************)
EXTENDS Integers, Sequences, FiniteSets, TLC

VARIABLES
    pc,            \* position of the modelled run
    cpath,         \* classifier: the path handed to is_safe_to_delete
    cres,          \* classifier: the tuple it returned
    canchored,     \* classifier: cpath starts at a root or drive (is absolute)
    pres,          \* classifier: what the two protected-path checks returned
    numNodes,      \* scanner: number of filesystem objects below the root
    parent,        \* scanner: parent[n], the directory holding object n
    kind,          \* scanner: "file" or "dir"
    fsize,         \* scanner: st_size of a file
    hidden,        \* scanner: objects carrying the hidden attribute
    only_hidden,   \* scanner: the only_hidden argument
    threshold,     \* scanner: the threshold argument
    failNode,      \* scanner: the object whose stat/scandir raises, or NoNode
    failKind,      \* scanner: "stat" or "scandir"
    results,       \* the flat list returned by the scan
    top,           \* analyze: the top argument
    filtered_results, \* analyze: list(path_dict.values()), then sorted
    top_results,   \* analyze: filtered_results[:top], the view of the deletion loop
    inputs,        \* deletion loop: number of choices read so far
    index,         \* deletion loop: index of the selection being confirmed
    admin,         \* is_admin()
    calls,         \* history: paths delete_item was called with
    confirmed,     \* history: paths of the selections the user answered yes for
    rejected,      \* history: inputs that were q, invalid or declined
    lastOutcome,   \* history: what the removal did in the last delete_item call
    lastDelete,    \* history: how the last delete_item call ended
    prompted,      \* history: the last delete_item call asked to retry as admin
    elevated       \* history: ShellExecuteW "runas" was started

vars == << pc, cpath, cres, canchored, pres, numNodes, parent, kind, fsize, hidden, only_hidden,
           threshold, failNode, failKind, results, top, filtered_results,
           top_results, inputs, index, admin, calls, confirmed, rejected,
           lastOutcome, lastDelete, prompted, elevated >>

classifyVars == << cpath, cres, canchored, pres >>
scanVars == << numNodes, parent, kind, fsize, hidden, only_hidden, threshold,
               failNode, failKind >>
rankVars == << top, filtered_results >>
loopVars == << inputs, index, admin, calls, confirmed, rejected, lastOutcome,
               lastDelete, prompted, elevated >>

(***************************************************************************)
(* Bounds of the model.                                                    *)
(***************************************************************************)
MaxLen == 3          \* longest classified path, in segments
MaxNodes == 3        \* filesystem objects below the scanned root
MaxSize == 2         \* largest file size
MaxThreshold == 2    \* largest threshold
MaxEntries == 3      \* longest list handed to the reconciliation
MaxTop == 3          \* top ranges over -MaxTop .. MaxTop
MaxInputs == 3       \* choices read by the deletion loop

NoNode == 0 - 1

(***************************************************************************)
(* Static tables (lines 38-61).                                            *)
(***************************************************************************)
PROTECTED_FOLDERS ==
    { "Windows", "Program Files", "Program Files (x86)", "ProgramData",
      "System32", "System Volume Information", "$Recycle.Bin", "$WINDOWS.~BT",
      "pagefile.sys", "hiberfil.sys", "swapfile.sys", "bootmgr" }

\* SPACE_HOGS in insertion order, the order of dict.items().
SPACE_HOGS ==
    << [pattern |-> "node_modules", description |-> "NPM packages (usually safe to delete if not actively developing)"],
       [pattern |-> ".conda",   description |-> "Conda environments (safe if not needed)"],
       [pattern |-> ".venv",    description |-> "Python virtual environments (safe if not needed)"],
       [pattern |-> ".cache",   description |-> "Cache files (usually safe to delete)"],
       [pattern |-> ".npm",     description |-> "NPM cache (safe to delete)"],
       [pattern |-> "temp",     description |-> "Temporary files (safe to delete)"],
       [pattern |-> "tmp",      description |-> "Temporary files (safe to delete)"],
       [pattern |-> ".git",     description |-> "Git repositories (contains version history, be careful)"],
       [pattern |-> "build",    description |-> "Build artifacts (usually safe if not actively building)"],
       [pattern |-> "dist",     description |-> "Distribution files (usually safe if not needed)"],
       [pattern |-> "logs",     description |-> "Log files (usually safe to delete old logs)"],
       [pattern |-> ".nuget",   description |-> "NuGet package cache (safe if not actively developing)"],
       [pattern |-> ".gradle",  description |-> "Gradle build system cache (safe if not actively developing)"],
       [pattern |-> ".m2",      description |-> "Maven repository (safe if not actively developing)"],
       [pattern |-> "AppData",  description |-> "Application data (may contain important settings)"] >>

\* The descriptions d of SPACE_HOGS for which "safe" in d.lower() is true:
\* every description but those of .git and AppData.
SafeDescriptions ==
    { SPACE_HOGS[i].description : i \in (1..15) \ {8, 15} }

DescriptionSaysSafe(description) == description \in SafeDescriptions

\* str.lower() on the names the model uses.
Lower(s) ==
    CASE s = "Windows" -> "windows"
      [] s = "WINDOWS" -> "windows"
      [] s = "Program Files" -> "program files"
      [] s = "Program Files (x86)" -> "program files (x86)"
      [] s = "ProgramData" -> "programdata"
      [] s = "System32" -> "system32"
      [] s = "System Volume Information" -> "system volume information"
      [] s = "$Recycle.Bin" -> "$recycle.bin"
      [] s = "$WINDOWS.~BT" -> "$windows.~bt"
      [] s = "AppData" -> "appdata"
      [] s = "TMP" -> "tmp"
      [] s = "Temp" -> "temp"
      [] s = "Docs" -> "docs"
      [] OTHER -> s

(***************************************************************************)
(* PathClassifier.                                                         *)
(***************************************************************************)
\* pathlib.Path(path).parts: the segments of the path.
Parts(path) == path

\* pathlib.Path(path).name: the final segment ("" for the root).
Name(path) == IF Len(path) = 0 THEN "" ELSE path[Len(path)]

\* The test of line 102 on one part.
PartIsProtected(part) == part \in PROTECTED_FOLDERS

is_path_protected(path) ==
    \E i \in 1..Len(Parts(path)) : PartIsProtected(Parts(path)[i])

\* The test of line 122 on the final segment and one pattern.
NameMatches(name, pattern) ==
    name = pattern \/ Lower(name) = Lower(pattern)

\* Indices of the patterns the loop of lines 121-126 matches.
Matching(name) ==
    { i \in 1..Len(SPACE_HOGS) : NameMatches(name, SPACE_HOGS[i].pattern) }

FirstMatch(name) ==
    CHOOSE i \in Matching(name) : \A j \in Matching(name) : i <= j

is_safe_to_delete(path) ==
    IF is_path_protected(path)
    THEN [is_safe |-> FALSE, reason |-> "System protected"]
    ELSE IF Matching(Name(path)) # {}
         THEN LET description == SPACE_HOGS[FirstMatch(Name(path))].description
              IN  IF DescriptionSaysSafe(description)
                  THEN [is_safe |-> TRUE, reason |-> description]
                  ELSE [is_safe |-> FALSE, reason |-> description]
         ELSE [is_safe |-> FALSE, reason |-> "Unknown"]

\* is_protected (lines 540-553) on the text of a path whose segments are
\* joined by one kind of separator: the lower-cased text contains, or ends
\* with, a separator followed by a lower-cased protected name, the name ending
\* at a separator or at the end of the text.  The first segment of a path
\* that is not anchored has no separator before it.  (pathlib does not count
\* the anchor among the segments is_path_protected can match.)
is_protected_text(path, anchored) ==
    \E i \in 1..Len(path) :
        /\ i > 1 \/ anchored
        /\ \E protected \in PROTECTED_FOLDERS : Lower(path[i]) = Lower(protected)

\* is_protected on an absolute path, as the scanner produces them.
is_protected(path) == is_protected_text(path, TRUE)

(***************************************************************************)
(* Scanner: scan_directory, which scan_with_progress repeats line for line *)
(* with a progress counter added.  The filesystem is a tree of objects     *)
(* 0..numNodes, 0 being the scanned root; os.scandir lists the children of *)
(* a directory in increasing order of their number.  failNode is the one   *)
(* object on which a PermissionError / FileNotFoundError is raised:        *)
(* failKind "stat" when entry.stat() / entry.is_file() raises for it in    *)
(* the loop of its parent, "scandir" when os.scandir raises on it.         *)
(* hidden holds the objects whose hidden test (file attribute on nt, name  *)
(* starting with a dot elsewhere) is true.                                 *)
(***************************************************************************)
RootPath == << "Users" >>

\* entry.name of object n; siblings have different names.
NodeNames == << "tmp", "docs", "node_modules", "Windows", ".git", "build" >>

RECURSIVE PathOf(_)
\* entry.path: the path of the parent joined with the name.
PathOf(n) == IF n = 0 THEN RootPath ELSE Append(PathOf(parent[n]), NodeNames[n])

Entry(path, size, is_file) ==
    LET c == is_safe_to_delete(path)
    IN  [path |-> path, size |-> size, is_file |-> is_file,
         is_safe |-> c.is_safe, reason |-> c.reason]

RECURSIVE SumSizes(_)
\* sum(size for _, size, _, _, _ in entries)
SumSizes(entries) ==
    IF entries = << >> THEN 0 ELSE Head(entries).size + SumSizes(Tail(entries))

\* The comparisons of lines 166, 190 and 213.
MeetsThreshold_strict(size, thr) == size > thr

MeetsThreshold(size, thr) == size >= thr

\* os.scandir(path) of directory n, when it does not raise.
Children(n, present) ==
    SelectSeq([i \in 1..numNodes |-> i],
              LAMBDA m : m \in present /\ parent[m] = n)

\* The children of n that the loop of lines 179-196 gets past the stat and
\* the only_hidden test for.  An error on one child is caught inside the
\* loop (line 195) and only that child is dropped.
VisitedChildren_abort(n, present, fn, fk) ==
    IF fn = n /\ fk = "scandir"
    THEN << >>
    ELSE SelectSeq(Children(n, present),
                   LAMBDA m : ~(fk = "stat" /\ fn \in present \ {0}
                                /\ parent[fn] = n /\ fn <= m)
                              /\ (only_hidden => m \in hidden))

VisitedChildren(n, present, fn, fk) ==
    IF fn = n /\ fk = "scandir"
    THEN << >>
    ELSE SelectSeq(Children(n, present),
                   LAMBDA m : ~(fn = m /\ fk = "stat")
                              /\ (only_hidden => m \in hidden))

\* Lines 186-192: the entries appended for the files of the listing.
FileEntries(listing) ==
    LET files == SelectSeq(listing,
                           LAMBDA m : kind[m] = "file"
                                      /\ MeetsThreshold(fsize[m], threshold))
    IN  [i \in 1..Len(files) |-> Entry(PathOf(files[i]), fsize[files[i]], TRUE)]

\* Lines 193-194: items_to_scan.
ItemsToScan(listing) == SelectSeq(listing, LAMBDA m : kind[m] # "file")

RECURSIVE scan_directory(_, _, _, _)
RECURSIVE ScanItems(_, _, _, _)

\* Lines 201-219: the loop over items_to_scan.
ScanItems(items, present, fn, fk) ==
    IF items = << >>
    THEN << >>
    ELSE LET item == Head(items)
             sub_results == scan_directory(item, present, fn, fk)
             sub_size == SumSizes(sub_results)
             own == IF MeetsThreshold(sub_size, threshold)
                    THEN << Entry(PathOf(item), sub_size, FALSE) >>
                    ELSE << >>
         IN  sub_results \o own \o ScanItems(Tail(items), present, fn, fk)

scan_directory(n, present, fn, fk) ==
    IF kind[n] = "file"
    THEN \* lines 162-172, reached for the root only
         IF fn = n
         THEN << >>
         ELSE IF MeetsThreshold(fsize[n], threshold) /\ (~only_hidden \/ n \in hidden)
              THEN << Entry(PathOf(n), fsize[n], TRUE) >>
              ELSE << >>
    ELSE LET listing == VisitedChildren(n, present, fn, fk)
         IN  FileEntries(listing) \o ScanItems(ItemsToScan(listing), present, fn, fk)

AllNodes == 0..numNodes

(***************************************************************************)
(* Values the variables of the other parts hold while one part runs.       *)
(***************************************************************************)
NoResult == [is_safe |-> FALSE, reason |-> ""]

NoCheck == [by_parts |-> FALSE, by_text |-> FALSE]

ClassifyIdle ==
    cpath = << >> /\ cres = NoResult /\ canchored = TRUE /\ pres = NoCheck

ScanIdle ==
    /\ numNodes = 0 /\ parent = << >> /\ kind = [n \in {0} |-> "dir"]
    /\ fsize = [n \in {0} |-> 0] /\ hidden = {} /\ only_hidden = FALSE
    /\ threshold = 0 /\ failNode = NoNode /\ failKind = "stat"

RankIdle == top = 0 /\ filtered_results = << >>

LoopIdle ==
    /\ inputs = 0 /\ index = 0 /\ admin = FALSE
    /\ calls = << >> /\ confirmed = << >> /\ rejected = 0
    /\ lastOutcome = "none" /\ lastDelete = "none"
    /\ prompted = FALSE /\ elevated = FALSE

(***************************************************************************)
(* Classification of one path.                                             *)
(***************************************************************************)
Segments == { "Windows", "windows", "tmp", "TMP", "docs", ".git" }

Paths == UNION { [1..n -> Segments] : n \in 1..MaxLen }

InitClassify ==
    /\ pc = "classify"
    /\ cpath \in Paths
    /\ cres = NoResult
    /\ canchored = TRUE /\ pres = NoCheck
    /\ ScanIdle /\ RankIdle /\ LoopIdle
    /\ results = << >> /\ top_results = << >>

Classify ==
    /\ pc = "classify"
    /\ cres' = is_safe_to_delete(cpath)
    /\ pc' = "classified"
    /\ UNCHANGED << cpath, canchored, pres, scanVars, rankVars, loopVars, results,
                    top_results >>

NextClassify == Classify

SpecClassify == InitClassify /\ [][NextClassify]_vars

(***************************************************************************)
(* The two protected-path checks on one path, relative or absolute, as     *)
(* classification (line 114) and presentation (lines 458, 515) call them.  *)
(***************************************************************************)
InitProtect ==
    /\ pc = "protect"
    /\ cpath \in Paths
    /\ canchored \in BOOLEAN
    /\ cres = NoResult /\ pres = NoCheck
    /\ ScanIdle /\ RankIdle /\ LoopIdle
    /\ results = << >> /\ top_results = << >>

CheckProtected ==
    /\ pc = "protect"
    /\ pres' = [by_parts |-> is_path_protected(cpath),
                by_text |-> is_protected_text(cpath, canchored)]
    /\ pc' = "protected"
    /\ UNCHANGED << cpath, cres, canchored, scanVars, rankVars, loopVars, results,
                    top_results >>

NextProtect == CheckProtected

SpecProtect == InitProtect /\ [][NextProtect]_vars

(***************************************************************************)
(* One scan of one tree.                                                   *)
(***************************************************************************)
InitScan ==
    /\ pc = "scan"
    /\ numNodes \in 0..MaxNodes
    /\ parent \in [1..numNodes -> 0..MaxNodes]
    /\ \A m \in 1..numNodes : parent[m] < m
    /\ kind \in [0..numNodes -> {"file", "dir"}]
    /\ \A m \in 1..numNodes : kind[parent[m]] = "dir"
    /\ fsize \in [0..numNodes -> 0..MaxSize]
    /\ \A m \in 0..numNodes : (kind[m] = "dir") <=> (fsize[m] = 0)
    /\ only_hidden \in BOOLEAN
    /\ hidden \in SUBSET (IF kind[0] = "file" THEN {0} ELSE 1..numNodes)
    /\ ~only_hidden => hidden = {}
    /\ threshold \in 0..MaxThreshold
    /\ failNode \in {NoNode} \cup (0..numNodes)
    /\ failKind \in {"stat", "scandir"}
    /\ failNode = NoNode => failKind = "stat"
    /\ (failNode # NoNode /\ failKind = "scandir") => kind[failNode] = "dir"
    /\ failNode = 0 => (failKind = "stat") = (kind[0] = "file")
    /\ results = << >>
    /\ ClassifyIdle /\ RankIdle /\ LoopIdle
    /\ top_results = << >>

Scan ==
    /\ pc = "scan"
    /\ results' = scan_directory(0, AllNodes, failNode, failKind)
    /\ pc' = "scanned"
    /\ UNCHANGED << classifyVars, scanVars, rankVars, loopVars, top_results >>

NextScan == Scan

SpecScan == InitScan /\ [][NextScan]_vars

(***************************************************************************)
(* analyze, lines 412-426: reconciliation of the scan results by path, the *)
(* sort by size and the top-N slice.  path_dict is a dict: it keeps its    *)
(* keys in the order of their first insertion, and assigning to a key      *)
(* already present keeps the key's place.  It is modelled by the sequence  *)
(* of its values.                                                          *)
(***************************************************************************)
\* The size test of line 417 for a path already in path_dict.
Replaces_always(size, kept) == TRUE

Replaces_or_equal(size, kept) == size >= kept

Replaces(size, kept) == size > kept

\* One pass of the loop of lines 415-418.
DictPut(d, result) ==
    IF \E i \in 1..Len(d) : d[i].path = result.path
    THEN LET i == CHOOSE k \in 1..Len(d) : d[k].path = result.path
         IN  IF Replaces(result.size, d[i].size)
             THEN [d EXCEPT ![i] = result]
             ELSE d
    ELSE Append(d, result)

RECURSIVE PathDict(_, _)
\* path_dict after the loop has gone through entries, starting from d.
PathDict(d, entries) ==
    IF entries = << >>
    THEN d
    ELSE PathDict(DictPut(d, Head(entries)), Tail(entries))

\* list.sort(key=size, reverse=True) places an element after every element
\* of greater or equal size that came before it: the sort is stable.
InsertDesc(sorted, e) ==
    LET before == SelectSeq(sorted, LAMBDA x : x.size >= e.size)
        after == SelectSeq(sorted, LAMBDA x : x.size < e.size)
    IN  before \o << e >> \o after

RECURSIVE SortDesc(_, _)
SortDesc(sorted, rest) ==
    IF rest = << >>
    THEN sorted
    ELSE SortDesc(InsertDesc(sorted, Head(rest)), Tail(rest))

Min(a, b) == IF a < b THEN a ELSE b

Max(a, b) == IF a > b THEN a ELSE b

\* seq[:n]: a negative n counts from the end of the list.
SliceTo(seq, n) ==
    IF n >= 0
    THEN SubSeq(seq, 1, Min(n, Len(seq)))
    ELSE SubSeq(seq, 1, Max(Len(seq) + n, 0))

\* Result tuples handed to the reconciliation.
EntryPaths == { << "Users", "tmp" >>, << "Users", "docs" >>, << "Users", "Windows" >> }

EntryValues ==
    { Entry(p, z, f) : p \in EntryPaths, z \in 1..MaxSize, f \in BOOLEAN }

InitReconcile ==
    /\ pc = "reconcile"
    /\ results \in UNION { [1..n -> EntryValues] : n \in 0..MaxEntries }
    /\ top = 0 /\ filtered_results = << >> /\ top_results = << >>
    /\ ClassifyIdle /\ ScanIdle /\ LoopIdle

\* Lines 414-420.
Reconcile ==
    /\ pc = "reconcile"
    /\ filtered_results' = PathDict(<< >>, results)
    /\ pc' = "reconciled"
    /\ UNCHANGED << classifyVars, scanVars, loopVars, results, top, top_results >>

\* Lines 423-426, for the value of the --top option.
Rank ==
    /\ pc = "reconciled"
    /\ \E n \in (0 - MaxTop)..MaxTop :
        /\ top' = n
        /\ filtered_results' = SortDesc(<< >>, filtered_results)
        /\ top_results' = SliceTo(filtered_results', n)
    /\ pc' = "ranked"
    /\ UNCHANGED << classifyVars, scanVars, loopVars, results >>

NextReconcile == Reconcile \/ Rank

SpecReconcile == InitReconcile /\ [][NextReconcile]_vars

(***************************************************************************)
(* Claims about the reconciliation and the ranking.                        *)
(***************************************************************************)
InputAt(path) == { i \in 1..Len(results) : results[i].path = path }

KeptAt(path) == { i \in 1..Len(filtered_results) : filtered_results[i].path = path }

\* Input positions holding the largest size reported for the path.
LargestAt(path) ==
    { i \in InputAt(path) : \A j \in InputAt(path) : results[j].size <= results[i].size }

C5_LastTiedEntryKept ==
    pc = "reconciled" =>
        \A p \in EntryPaths : \A k \in KeptAt(p) :
            \E i \in LargestAt(p) :
                /\ \A j \in LargestAt(p) : j <= i
                /\ filtered_results[k] = results[i]

\* C5 amended: of the entries tied on the largest size of a path, the first
\* in input order is kept.
C5_FirstTiedEntryKept ==
    pc = "reconciled" =>
        \A p \in EntryPaths : \A k \in KeptAt(p) :
            \E i \in LargestAt(p) :
                /\ \A j \in LargestAt(p) : i <= j
                /\ filtered_results[k] = results[i]

\* Two entries of one path tied on its largest size and differing otherwise.
C5_Witness ==
    /\ pc = "reconciled"
    /\ \E p \in EntryPaths : \E i, j \in LargestAt(p) :
          /\ i < j
          /\ results[i] # results[j]
          /\ \E k \in KeptAt(p) : filtered_results[k] = results[i]

\* Position of the entry of a path in the reconciled, unsorted list.
PreSortPos(path) ==
    LET d == PathDict(<< >>, results)
    IN  CHOOSE i \in 1..Len(d) : d[i].path = path

\* s holds the reconciled entries in descending order of size, entries of
\* equal size in their order before the sort.
IsStableDescending(s) ==
    LET d == PathDict(<< >>, results)
    IN  /\ Len(s) = Len(d)
        /\ \A i \in 1..Len(d) : \E j \in 1..Len(s) : s[j] = d[i]
        /\ \A i, j \in 1..Len(s) :
              i < j => /\ s[i].size >= s[j].size
                       /\ s[i].size = s[j].size
                             => PreSortPos(s[i].path) < PreSortPos(s[j].path)

\* C6: the view is the stably sorted reconciled list cut to top entries:
\* empty for every top <= 0, its first top entries for 0 < top < length, the
\* whole list for top >= length.
C6_ViewIsSortedPrefix ==
    pc = "ranked" =>
        /\ IsStableDescending(filtered_results)
        /\ top_results =
              IF top <= 0
              THEN << >>
              ELSE IF top < Len(filtered_results)
                   THEN SubSeq(filtered_results, 1, top)
                   ELSE filtered_results

(***************************************************************************)
(* analyze, lines 500-538: the deletion loop, with delete_item (226-254)   *)
(* and run_as_admin (70-81) as they run on Windows.  The loop blocks at    *)
(* three places: console.input (pc = "input"), the confirmation of the     *)
(* selection (pc = "confirm") and, inside delete_item, the question        *)
(* whether to retry as administrator (pc = "retry").  pc = "done" after    *)
(* 'q', pc = "exited" after sys.exit(0) in run_as_admin.                   *)
(***************************************************************************)
\* Line 512.
ValidIndex(i, view) == 0 <= i /\ i < Len(view)

\* top_results[index] for the 0-based index of the code.
ItemAt(view, i) == view[i + 1]

\* Lines 515-526: which of the three confirmations is asked.
ConfirmPrompt(item) ==
    IF is_protected(item.path) THEN "protected"
    ELSE IF ~item.is_safe THEN "unsafe"
    ELSE "plain"

\* Lines 517-518, 522-523, 525-526: every branch goes on to delete_item only
\* when Confirm.ask returned true.
ProceedsToDelete_unsafe_only_warned(prompt, answer) == answer \/ prompt = "unsafe"

ProceedsToDelete(prompt, answer) == answer

\* Line 248: the retry question is asked when the process is not elevated.
AsksRetry_always(isAdmin) == TRUE

AsksRetry(isAdmin) == ~isAdmin

\* top_results.pop(index)
Pop_last(view, i) == SubSeq(view, 1, Len(view) - 1)

Pop(view, i) == SubSeq(view, 1, i) \o SubSeq(view, i + 2, Len(view))

\* What os.remove / shutil.rmtree can do in delete_item: remove the path,
\* find neither a file nor a directory (line 245), raise PermissionError
\* (line 246) or raise another exception (line 252).
RemovalOutcomes == { "removed", "missing", "permission", "error" }

\* Entries of the view: two directories of 2 bytes and, beneath them, two
\* directories of 1 byte.
LoopItems ==
    { Entry(<< "Users", "Windows" >>, 2, FALSE),
      Entry(<< "Users", "docs" >>, 2, FALSE),
      Entry(<< "Users", "docs", "tmp" >>, 1, FALSE),
      Entry(<< "Users", "windows", "tmp" >>, 1, FALSE) }

\* The views line 426 can hand to the loop: no path twice, sizes descending.
Views ==
    { v \in UNION { [1..n -> LoopItems] : n \in 0..MaxEntries } :
        /\ \A i, j \in 1..Len(v) : i # j => v[i] # v[j]
        /\ \A i, j \in 1..Len(v) : i < j => v[i].size >= v[j].size }

InitLoop ==
    /\ pc = "input"
    /\ top_results \in Views
    /\ admin \in BOOLEAN
    /\ inputs = 0 /\ index = 0
    /\ calls = << >> /\ confirmed = << >> /\ rejected = 0
    /\ lastOutcome = "none" /\ lastDelete = "none"
    /\ prompted = FALSE /\ elevated = FALSE
    /\ ClassifyIdle /\ ScanIdle /\ RankIdle
    /\ results = << >>

\* Lines 505-512 and 535-538: one choice is read.
ReadChoice ==
    /\ pc = "input"
    /\ inputs < MaxInputs
    /\ inputs' = inputs + 1
    /\ \E choice \in {"q", "text", "number"} :
        \/ /\ choice = "q"
           /\ pc' = "done"
           /\ rejected' = rejected + 1
           /\ UNCHANGED index
        \/ /\ choice = "text"          \* int(choice) raises ValueError
           /\ pc' = "input"
           /\ rejected' = rejected + 1
           /\ UNCHANGED index
        \/ /\ choice = "number"
           /\ \E k \in (0 - 1)..(MaxEntries + 1) :
                /\ index' = k - 1
                /\ IF ValidIndex(k - 1, top_results)
                   THEN pc' = "confirm" /\ UNCHANGED rejected
                   ELSE pc' = "input" /\ rejected' = rejected + 1
    /\ UNCHANGED << classifyVars, scanVars, rankVars, results, top_results, admin,
                    calls, confirmed, lastOutcome, lastDelete, prompted, elevated >>

\* Lines 513-534 and 236-254: the user answers the confirmation; on yes
\* delete_item runs up to its return or to its retry question.
AnswerConfirm ==
    /\ pc = "confirm"
    /\ LET item == ItemAt(top_results, index)
       IN  \E answer \in BOOLEAN :
            /\ confirmed' = IF answer THEN Append(confirmed, item.path) ELSE confirmed
            /\ IF ~ProceedsToDelete(ConfirmPrompt(item), answer)
               THEN /\ pc' = "input"
                    /\ rejected' = rejected + 1
                    /\ UNCHANGED << top_results, calls, lastOutcome, lastDelete,
                                    prompted, elevated >>
               ELSE /\ calls' = Append(calls, item.path)
                    /\ UNCHANGED << rejected, elevated >>
                    /\ \E outcome \in RemovalOutcomes :
                        /\ lastOutcome' = outcome
                        /\ IF outcome = "removed"
                           THEN /\ lastDelete' = "true"
                                /\ prompted' = FALSE
                                /\ top_results' = Pop(top_results, index)
                                /\ pc' = "input"
                           ELSE /\ UNCHANGED top_results
                                /\ IF outcome = "permission" /\ AsksRetry(admin)
                                   THEN /\ prompted' = TRUE
                                        /\ lastDelete' = "pending"
                                        /\ pc' = "retry"
                                   ELSE /\ prompted' = FALSE
                                        /\ lastDelete' = "false"
                                        /\ pc' = "input"
    /\ UNCHANGED << classifyVars, scanVars, rankVars, results, inputs, index, admin >>

\* Lines 249-251 and 70-81: the user answers the retry question.  On yes
\* run_as_admin starts the elevated copy and ends the process.
AnswerRetry ==
    /\ pc = "retry"
    /\ \E answer \in BOOLEAN :
        IF answer
        THEN /\ elevated' = TRUE
             /\ lastDelete' = "exit"
             /\ pc' = "exited"
        ELSE /\ lastDelete' = "false"
             /\ pc' = "input"
             /\ UNCHANGED elevated
    /\ UNCHANGED << classifyVars, scanVars, rankVars, results, top_results, inputs,
                    index, admin, calls, confirmed, rejected, lastOutcome, prompted >>

NextLoop == ReadChoice \/ AnswerConfirm \/ AnswerRetry

SpecLoop == InitLoop /\ [][NextLoop]_vars

(***************************************************************************)
(* Claims about the classifier.                                            *)
(***************************************************************************)
\* Some segment of the path equals a protected name, letter case ignored.
HasProtectedSegment(path) ==
    \E i \in 1..Len(path) :
        \E p \in PROTECTED_FOLDERS : Lower(path[i]) = Lower(p)

\* The final segment equals, letter case ignored, a SPACE_HOGS name whose
\* description contains "safe".
FinalIsSafeHog(path) ==
    \E i \in 1..Len(SPACE_HOGS) :
        /\ Lower(Name(path)) = Lower(SPACE_HOGS[i].pattern)
        /\ SPACE_HOGS[i].description \in SafeDescriptions

FinalIsHog(path) ==
    \E i \in 1..Len(SPACE_HOGS) : Lower(Name(path)) = Lower(SPACE_HOGS[i].pattern)

\* C2: every path with a segment equal, case-insensitively, to a protected
\* name is classified (false, "System protected"), whatever its final segment.
C2_ProtectedSegmentIsProtected ==
    (pc = "classified" /\ HasProtectedSegment(cpath))
        => cres = [is_safe |-> FALSE, reason |-> "System protected"]

\* C3: is_safe is true only for a path with no protected segment whose final
\* segment is a "safe" space hog; a path with no protected segment and a final
\* segment matching no table name is classified exactly (false, "Unknown").
C3_SafeOnlyForSafeHogs ==
    pc = "classified" =>
        /\ cres.is_safe => (~HasProtectedSegment(cpath) /\ FinalIsSafeHog(cpath))
        /\ (~HasProtectedSegment(cpath) /\ ~FinalIsHog(cpath))
              => cres = [is_safe |-> FALSE, reason |-> "Unknown"]

(***************************************************************************)
(* Claims about the scanner.                                               *)
(***************************************************************************)
\* The loop of parent[m] gets past the stat and the only_hidden test for m.
Taken(m) ==
    /\ ~(failNode = m /\ failKind = "stat")
    /\ ~(failNode = parent[m] /\ failKind = "scandir")
    /\ only_hidden => m \in hidden

RECURSIVE VisitedBeneath(_, _)
\* m lies beneath directory n and the walk from n reaches it.
VisitedBeneath(m, n) ==
    /\ m # 0
    /\ Taken(m)
    /\ (parent[m] = n \/ VisitedBeneath(parent[m], n))

RECURSIVE BytesFrom(_, _)
\* Sum of the sizes of the files k, k+1, ... visited beneath n.
BytesFrom(k, n) ==
    IF k > numNodes
    THEN 0
    ELSE (IF kind[k] = "file" /\ VisitedBeneath(k, n) THEN fsize[k] ELSE 0)
         + BytesFrom(k + 1, n)

BytesBeneath(n) == BytesFrom(1, n)

NodeAt(path) == CHOOSE n \in AllNodes : PathOf(n) = path

\* C1: the size of every emitted directory entry is the sum of the sizes of
\* all files visited beneath that directory, each counted once, whatever the
\* threshold.
C1_DirectorySizeIsSumOfFiles ==
    pc = "scanned" =>
        \A i \in 1..Len(results) :
            ~results[i].is_file =>
                results[i].size = BytesBeneath(NodeAt(results[i].path))

Occurrences(path) == { i \in 1..Len(results) : results[i].path = path }

\* C7: scanning a directory with only_hidden false and no error, every file
\* beneath the root of size >= threshold appears exactly once, as a file entry
\* with its own size; no smaller file appears; every entry has size >= threshold.
C7_FilesEmittedByThreshold ==
    (pc = "scanned" /\ ~only_hidden /\ failNode = NoNode /\ kind[0] = "dir") =>
        /\ \A m \in 1..numNodes :
              kind[m] = "file" =>
                  IF fsize[m] >= threshold
                  THEN /\ Cardinality(Occurrences(PathOf(m))) = 1
                       /\ \A i \in Occurrences(PathOf(m)) :
                              results[i].is_file /\ results[i].size = fsize[m]
                  ELSE Occurrences(PathOf(m)) = {}
        /\ \A i \in 1..Len(results) : results[i].size >= threshold

\* A scan in which a file two levels down is emitted while a smaller file is not.
C7_Witness ==
    /\ pc = "scanned" /\ ~only_hidden /\ failNode = NoNode /\ kind[0] = "dir"
    /\ \E m \in 1..numNodes :
          /\ kind[m] = "file" /\ parent[m] # 0 /\ fsize[m] = threshold
          /\ Occurrences(PathOf(m)) # {}
    /\ \E m \in 1..numNodes :
          kind[m] = "file" /\ fsize[m] < threshold /\ Occurrences(PathOf(m)) = {}

RECURSIVE IsBeneath(_, _)
IsBeneath(m, c) == m # 0 /\ (parent[m] = c \/ IsBeneath(parent[m], c))

Subtree(c) == { m \in AllNodes : m = c \/ IsBeneath(m, c) }

\* The scan of the same tree with object c absent and no error.
ScanWithout(c) == scan_directory(0, AllNodes \ Subtree(c), NoNode, "stat")

\* C9 as claimed: with an error on child c the scan returns what the scan of
\* the tree without c returns: c is skipped, every other entry is the same.
C9_FailingChildSkipped ==
    (pc = "scanned" /\ failNode # NoNode /\ failNode # 0)
        => results = ScanWithout(failNode)

\* C9 amended: the entries for all other paths are those of the scan of the
\* tree without c; c itself has no entry, except that a directory c whose
\* enumeration raises is entered as a directory of size 0 when it is reached
\* and the threshold is <= 0.
C9_FailingChildContained ==
    (pc = "scanned" /\ failNode # NoNode /\ failNode # 0) =>
        LET c == failNode
            others == SelectSeq(results, LAMBDA e : e.path # PathOf(c))
            own == SelectSeq(results, LAMBDA e : e.path = PathOf(c))
        IN  /\ others = ScanWithout(c)
            /\ own = IF failKind = "scandir" /\ threshold <= 0 /\ VisitedBeneath(c, 0)
                     THEN << Entry(PathOf(c), 0, FALSE) >>
                     ELSE << >>

\* A stat error on a child whose later sibling is emitted, and the directory
\* above them as well.
C9_Witness ==
    /\ pc = "scanned" /\ failNode # NoNode /\ failNode # 0 /\ failKind = "stat"
    /\ \E m \in 1..numNodes :
          /\ parent[m] = parent[failNode] /\ m > failNode
          /\ Occurrences(PathOf(m)) # {}
    /\ \E m \in 1..numNodes : IsBeneath(failNode, m) /\ Occurrences(PathOf(m)) # {}

(***************************************************************************)
(* Claims about delete_item and the deletion loop.                         *)
(***************************************************************************)
\* C8 as claimed: when the removal fails with permission denied, delete_item
\* returns failure and does nothing else: no retry question, no elevated
\* restart, no end of the process.
C8_PermissionDeniedJustFails ==
    lastOutcome = "permission" =>
        /\ lastDelete = "false"
        /\ ~prompted
        /\ ~elevated
        /\ pc # "exited"

\* C8 amended: when the removal fails with permission denied, an elevated
\* process gets the failure back with no question asked; a process that is
\* not elevated is asked whether to retry as administrator: on no the failure
\* is returned, on yes the elevated copy is started and the process ends
\* without delete_item returning.
C8_PermissionDeniedAsksUnlessAdmin ==
    lastOutcome = "permission" =>
        /\ admin => (lastDelete = "false" /\ ~prompted /\ ~elevated /\ pc # "exited")
        /\ ~admin =>
              /\ prompted
              /\ \/ lastDelete = "pending" /\ pc = "retry" /\ ~elevated
                 \/ lastDelete = "false" /\ pc \in {"input", "confirm", "done"} /\ ~elevated
                 \/ lastDelete = "exit" /\ pc = "exited" /\ elevated

\* The process ended inside delete_item after a permission error.
C8_Witness ==
    lastOutcome = "permission" /\ ~admin /\ pc = "exited" /\ elevated

\* C10: delete_item is called exactly for the selections the user answered
\* yes for, in that order; every other input (q, not a number, out of range,
\* declined) leads to no call.
C10_DeleteOnlyAfterYes ==
    /\ calls = confirmed
    /\ Len(calls) + rejected + (IF pc = "confirm" THEN 1 ELSE 0) = inputs

\* A run with a confirmed deletion of a protected item, one of an unsafe item
\* and a rejected input.
C10_Witness ==
    /\ rejected >= 1
    /\ \E i, j \in 1..Len(calls) :
          /\ is_protected(calls[i])
          /\ ~is_protected(calls[j]) /\ ~is_safe_to_delete(calls[j]).is_safe

\* The list after is the list before with its k-th entry taken out: the
\* entries before it keep their place, the entries after it move up by one.
RemovedKth(before, after, k) ==
    /\ k \in 1..Len(before)
    /\ Len(after) = Len(before) - 1
    /\ \A i \in 1..Len(after) : after[i] = IF i < k THEN before[i] ELSE before[i + 1]

\* C11: a selection k is a 1-based index into the view; a confirmed deletion
\* that succeeds removes exactly the k-th entry and leaves the other entries,
\* their sizes and their order as they were; every other step (a failed
\* deletion, a declined confirmation, a selection below 1 or above the length
\* of the view, any other input) leaves the view unchanged.
C11_ViewChangesOnlyByRemovalOfSelection ==
    [][ /\ (pc = "confirm" /\ calls' # calls /\ lastDelete' = "true")
            => RemovedKth(top_results, top_results', index + 1)
        /\ ~(pc = "confirm" /\ calls' # calls /\ lastDelete' = "true")
            => top_results' = top_results
        /\ (pc = "input" /\ pc' = "confirm")
            => (index' + 1) \in 1..Len(top_results) ]_vars

\* A directory was deleted from the head of the view; the entry of a
\* directory beneath it is still in the view, and a later deletion failed.
C11_Witness ==
    /\ Len(calls) >= 2
    /\ calls[1] = << "Users", "docs" >>
    /\ lastDelete = "false"
    /\ Len(top_results) = 2
    /\ \E i \in 1..Len(top_results) : top_results[i].path = << "Users", "docs", "tmp" >>

(***************************************************************************)
(* Claim about the two protected-path checks.                              *)
(***************************************************************************)
\* C12: for every path holding a protected name as a full segment, in any
\* letter case and at any position, the first segment of a relative path
\* included, is_path_protected and is_protected both return true; and for
\* every path the two return the same boolean.
C12_ProtectedChecksAgree ==
    pc = "protected" =>
        /\ HasProtectedSegment(cpath) => (pres.by_parts /\ pres.by_text)
        /\ pres.by_parts = pres.by_text

====
